---- MODULE Spec2Model ----
(***************************************************************************)
(* Model of calculate_B_xenon.py: the scaling calculator                   *)
(* calculate_B_xenon and its only caller generate_feasibility_table.       *)
(*                                                                         *)
(* The calculator is IEEE-754 binary64 arithmetic (Python float): every    *)
(* literal, division, square root and product below is rounded to 53       *)
(* significant bits, round-half-to-even, exactly as CPython does it.       *)
(* Mantissas need more than the 32 bits of a TLC integer, so natural       *)
(* numbers are little-endian sequences of 15-bit limbs.                    *)
(***************************************************************************)
EXTENDS Integers, Sequences, FiniteSets, TLC

----------------------------------------------------------------------------
(* Natural numbers of unbounded size: <<>> is 0, no high zero limb.        *)

LimbBits == 15
Base == 2 ^ LimbBits

RECURSIVE BFromInt(_)
BFromInt(n) == IF n = 0 THEN <<>> ELSE <<n % Base>> \o BFromInt(n \div Base)

RECURSIVE BToInt(_)
BToInt(a) == IF a = <<>> THEN 0 ELSE Head(a) + Base * BToInt(Tail(a))

RECURSIVE BTrim(_)
BTrim(a) ==
  IF a = <<>> THEN <<>>
  ELSE IF a[Len(a)] = 0 THEN BTrim(SubSeq(a, 1, Len(a) - 1)) ELSE a

RECURSIVE BAddC(_, _, _)
BAddC(a, b, c) ==
  IF a = <<>> /\ b = <<>> THEN (IF c = 0 THEN <<>> ELSE <<c>>)
  ELSE LET x == IF a = <<>> THEN 0 ELSE Head(a)
           y == IF b = <<>> THEN 0 ELSE Head(b)
           s == x + y + c
       IN  <<s % Base>> \o BAddC(IF a = <<>> THEN <<>> ELSE Tail(a),
                                 IF b = <<>> THEN <<>> ELSE Tail(b),
                                 s \div Base)

BAdd(a, b) == BAddC(a, b, 0)

BTwice(a) == BAddC(a, a, 0)

\* a - b - c for a >= b + c, high zero limbs not yet removed
RECURSIVE BSubC(_, _, _)
BSubC(a, b, c) ==
  IF a = <<>> THEN <<>>
  ELSE LET y == IF b = <<>> THEN 0 ELSE Head(b)
           d == Head(a) - y - c
       IN  <<d % Base>> \o BSubC(Tail(a),
                                 IF b = <<>> THEN <<>> ELSE Tail(b),
                                 IF d < 0 THEN 1 ELSE 0)

BSub(a, b) == BTrim(BSubC(a, b, 0))

\* compares the limbs i, i-1, ..., 1 of two numbers of equal length
RECURSIVE BCmpFrom(_, _, _)
BCmpFrom(a, b, i) ==
  IF i = 0 THEN 0
  ELSE IF a[i] < b[i] THEN -1
  ELSE IF a[i] > b[i] THEN 1
  ELSE BCmpFrom(a, b, i - 1)

BCmp(a, b) ==
  IF Len(a) < Len(b) THEN -1
  ELSE IF Len(a) > Len(b) THEN 1
  ELSE BCmpFrom(a, b, Len(a))

BLeq(a, b) == BCmp(a, b) <= 0

\* a * d + c for a nonzero, 0 <= d < Base
RECURSIVE BMulSmallC(_, _, _)
BMulSmallC(a, d, c) ==
  IF a = <<>> THEN (IF c = 0 THEN <<>> ELSE <<c>>)
  ELSE LET p == Head(a) * d + c
       IN  <<p % Base>> \o BMulSmallC(Tail(a), d, p \div Base)

BMulSmall(a, d) == IF d = 0 THEN <<>> ELSE BMulSmallC(a, d, 0)

BTimesBase(a) == IF a = <<>> THEN <<>> ELSE <<0>> \o a

RECURSIVE BMul(_, _)
BMul(a, b) ==
  IF a = <<>> \/ b = <<>> THEN <<>>
  ELSE BAdd(BMulSmall(a, Head(b)), BTimesBase(BMul(a, Tail(b))))

Zeros(k) == [i \in 1..k |-> 0]

\* a * 2^k
BShl(a, k) ==
  IF a = <<>> THEN <<>>
  ELSE Zeros(k \div LimbBits) \o BMulSmall(a, 2 ^ (k % LimbBits))

BPow2(k) == BShl(<<1>>, k)

\* floor(a / d) for 0 < d < Base, limbs i..1 still to divide, r carried in
RECURSIVE BDivSmallFrom(_, _, _, _)
BDivSmallFrom(a, d, i, r) ==
  IF i = 0 THEN <<>>
  ELSE LET t == r * Base + a[i]
       IN  BDivSmallFrom(a, d, i - 1, t % d) \o <<t \div d>>

BDivSmall(a, d) == BTrim(BDivSmallFrom(a, d, Len(a), 0))

\* floor(a / 2^k)
BShr(a, k) ==
  LET w == k \div LimbBits
  IN  IF Len(a) <= w THEN <<>>
      ELSE BDivSmall(SubSeq(a, w + 1, Len(a)), 2 ^ (k % LimbBits))

BIsOdd(a) == a # <<>> /\ Head(a) % 2 = 1

RECURSIVE SmallBitLen(_)
SmallBitLen(n) == IF n = 0 THEN 0 ELSE 1 + SmallBitLen(n \div 2)

BitLen(a) ==
  IF a = <<>> THEN 0 ELSE LimbBits * (Len(a) - 1) + SmallBitLen(a[Len(a)])

RECURSIVE BFromDigits(_)
BFromDigits(ds) ==
  IF ds = <<>> THEN <<>>
  ELSE BAdd(BMulSmall(BFromDigits(SubSeq(ds, 1, Len(ds) - 1)), 10),
            BFromInt(ds[Len(ds)]))

RECURSIVE BPow10(_)
BPow10(k) == IF k = 0 THEN <<1>> ELSE BMulSmall(BPow10(k - 1), 10)

---------------------------------------------------------------------------------------------------------------------------------------------------
(* binary64: the value of [s, m, e] is (-1)^s * m * 2^e, with m = <<>>     *)
(* for zero and 2^52 <= m < 2^53 otherwise.  An operator hands every       *)
(* intermediate result on as an argument, so that it is computed once.     *)

Precision == 53

FZero(s) == [s |-> s, m |-> <<>>, e |-> 0]

\* r * 2^e for a rounded r of Precision bits, or of one bit more after a
\* carry out of the top bit
Renormalize(s, r, e) ==
  IF BitLen(r) > Precision
  THEN [s |-> s, m |-> BShr(r, 1), e |-> e + 1]
  ELSE [s |-> s, m |-> r, e |-> e]

\* q1 holds the Precision kept bits and the guard bit below them, st says
\* that something nonzero lies below the guard bit: to nearest, ties to even
RoundGuard(s, q1, e, st) ==
  Renormalize(s,
              BAddC(BShr(q1, 1), <<>>,
                    IF BIsOdd(q1) /\ (st \/ (Head(q1) \div 2) % 2 = 1) THEN 1 ELSE 0),
              e)

\* n has len > Precision bits, q1 is n without its low len - Precision - 1 bits
RoundLong(s, n, e, sticky, len, q1) ==
  RoundGuard(s, q1, e + (len - Precision),
             sticky \/ BShl(q1, len - Precision - 1) # n)

RoundLen(s, n, e, sticky, len) ==
  IF len <= Precision
  THEN [s |-> s, m |-> BShl(n, Precision - len), e |-> e - (Precision - len)]
  ELSE RoundLong(s, n, e, sticky, len, BShr(n, len - Precision - 1))

\* (-1)^s * (n + f) * 2^e rounded to nearest, ties to even, where
\* 0 <= f < 1 and sticky says f > 0; n has Precision + 2 bits when sticky
RoundPack(s, n, e, sticky) ==
  IF n = <<>> THEN FZero(s) ELSE RoundLen(s, n, e, sticky, BitLen(n))

\* float(n) for a Python int n
FromInt(n) ==
  RoundPack(IF n < 0 THEN 1 ELSE 0, BFromInt(IF n < 0 THEN 0 - n ELSE n), 0, FALSE)

\* one step of the long division of st.rem by b: st.q holds the quotient
\* bits produced so far
DivStep(st, b) ==
  IF BLeq(b, st.rem)
  THEN [q |-> BAddC(st.q, st.q, 1), rem |-> BTwice(BSub(st.rem, b))]
  ELSE [q |-> BTwice(st.q), rem |-> BTwice(st.rem)]

\* i steps of the long division, the first half of them and then the rest;
\* once the remainder is 0 every further quotient bit is 0
RECURSIVE DivLoop(_, _, _)
DivLoop(st, b, i) ==
  IF i = 0 THEN st
  ELSE IF st.rem = <<>> THEN [q |-> BShl(st.q, i), rem |-> <<>>]
  ELSE IF i = 1 THEN DivStep(st, b)
  ELSE DivLoop(DivLoop(st, b, i \div 2), b, i - i \div 2)

RatioRound(s, d, e) == RoundPack(s, d.q, e - (Precision + 1), d.rem # <<>>)

\* b <= a < 2 * b
RatioDivide(s, a, b, e) ==
  RatioRound(s, DivLoop([q |-> <<>>, rem |-> a], b, Precision + 2), e)

\* a and b of the same bit length
RatioAligned(s, a, b, e) ==
  LET lt == BCmp(a, b) < 0
  IN  RatioDivide(s, IF lt THEN BTwice(a) ELSE a, b, IF lt THEN e - 1 ELSE e)

AlignTo(a, len) == IF BitLen(a) < len THEN BShl(a, len - BitLen(a)) ELSE a

\* (-1)^s * (a / b) * 2^e correctly rounded, for naturals a > 0 and b > 0
Ratio(s, a, b, e) ==
  RatioAligned(s, AlignTo(a, BitLen(b)), AlignTo(b, BitLen(a)),
               e + (BitLen(a) - BitLen(b)))

\* x / y for floats, y nonzero
FDiv(x, y) ==
  IF x.m = <<>> THEN FZero((x.s + y.s) % 2)
  ELSE Ratio((x.s + y.s) % 2, x.m, y.m, x.e - y.e)

\* x * y for floats
FMul(x, y) ==
  IF x.m = <<>> \/ y.m = <<>> THEN FZero((x.s + y.s) % 2)
  ELSE RoundPack((x.s + y.s) % 2, BMul(x.m, y.m), x.e + y.e, FALSE)

\* the bit st.i of floor(sqrt(n)): st.r holds the bits above it and
\* st.r2 = st.r * st.r
SqrtStep(n, st) ==
  LET t == BAdd(BAdd(st.r2, BShl(st.r, st.i + 1)), BPow2(2 * st.i))
  IN  IF BLeq(t, n)
      THEN [r |-> BAdd(st.r, BPow2(st.i)), r2 |-> t, i |-> st.i - 1]
      ELSE [r |-> st.r, r2 |-> st.r2, i |-> st.i - 1]

\* k bits of the square root, the first half of them and then the rest;
\* once st.r2 = n every further bit is 0
RECURSIVE SqrtLoop(_, _, _)
SqrtLoop(n, st, k) ==
  IF k = 0 THEN st
  ELSE IF st.r2 = n THEN [r |-> st.r, r2 |-> st.r2, i |-> st.i - k]
  ELSE IF k = 1 THEN SqrtStep(n, st)
  ELSE SqrtLoop(n, SqrtLoop(n, st, k \div 2), k - k \div 2)

SqrtRound(d, n, e) == RoundPack(0, d.r, e, d.r2 # n)

\* sqrt(n * 2^(2 * e)) for n of 2 * Precision + 3 or 2 * Precision + 4 bits
SqrtScaled(n, e) ==
  SqrtRound(SqrtLoop(n, [r |-> <<>>, r2 |-> <<>>, i |-> Precision + 1], Precision + 2), n, e)

\* sqrt(x) correctly rounded, for a float x >= 0
FSqrt(x) ==
  IF x.m = <<>> THEN x
  ELSE LET t == IF (x.e - (Precision + 3)) % 2 = 0
                THEN Precision + 3 ELSE Precision + 4
       IN  SqrtScaled(BShl(x.m, t), (x.e - t) \div 2)

FIsNegative(x) == x.s = 1 /\ x.m # <<>>

\* a decimal literal: the digits without the point, frac of them after it
DecimalLiteral(digits, frac) ==
  Ratio(0, BFromDigits(digits), BPow10(frac), 0)

\* -1, 0 or 1 as x is below, equal to or above y; both normal or zero
FCmp(x, y) ==
  LET sx == IF x.m = <<>> THEN 0 ELSE IF x.s = 1 THEN -1 ELSE 1
      sy == IF y.m = <<>> THEN 0 ELSE IF y.s = 1 THEN -1 ELSE 1
  IN  IF sx # sy THEN (IF sx < sy THEN -1 ELSE 1)
      ELSE IF sx = 0 THEN 0
      ELSE IF x.e < y.e THEN 0 - sx
      ELSE IF x.e > y.e THEN sx
      ELSE sx * BCmp(x.m, y.m)

\* n / 2^sh to the nearest integer, ties to even, q1 being floor(n / 2^(sh-1))
NearestInt(n, sh, q1) ==
  BToInt(BShr(q1, 1))
    + (IF BIsOdd(q1) /\ (BShl(q1, sh - 1) # n \/ (Head(q1) \div 2) % 2 = 1)
       THEN 1 ELSE 0)

ScaledNearest(n, sh) == NearestInt(n, sh, BShr(n, sh - 1))

\* the value printed by the format spec .3f, in thousandths: x * 1000
\* rounded to the nearest integer, ties to even; |x| < 2^52
FormatF3(x) ==
  IF x.m = <<>> THEN 0
  ELSE (IF x.s = 1 THEN -1 ELSE 1) * ScaledNearest(BMulSmall(x.m, 1000), 0 - x.e)

-----
(* calculate_B_xenon                                                       *)

NoFloat == FZero(0)
Returned(x) == [kind |-> "return", val |-> x, err |-> ""]
Raised(e) == [kind |-> "raise", val |-> NoFloat, err |-> e]
NoOutcome == [kind |-> "none", val |-> NoFloat, err |-> ""]

B_HE == DecimalLiteral(<<0, 1, 1, 0>>, 3)
V_HE == DecimalLiteral(<<1, 0, 0, 0>>, 1)
Z_HE == 1

\* the correctly rounded quotient of two Python ints, b nonzero
IntQuotient(a, b) ==
  IF a = 0 THEN Returned(FZero(IF b < 0 THEN 1 ELSE 0))
  ELSE Returned(Ratio(IF (a < 0) # (b < 0) THEN 1 ELSE 0,
                      BFromInt(IF a < 0 THEN 0 - a ELSE a),
                      BFromInt(IF b < 0 THEN 0 - b ELSE b), 0))

\* a division that yields a number where Python raises
TrueDivUnchecked(a, b) ==
  IF b = 0 THEN Returned(FZero(0)) ELSE IntQuotient(a, b)

\* a / b for Python ints: ZeroDivisionError when b = 0
TrueDiv(a, b) ==
  IF b = 0 THEN Raised("ZeroDivisionError") ELSE IntQuotient(a, b)

\* a square root that yields a number where math.sqrt raises
MathSqrtUnchecked(x) == Returned(FSqrt([x EXCEPT !.s = 0]))

\* math.sqrt: ValueError (math domain error) below zero
MathSqrt(x) ==
  IF FIsNegative(x) THEN Raised("ValueError") ELSE Returned(FSqrt(x))

\* math.sqrt of the outcome of a division: an exception propagates
SqrtOf(q) == IF q.kind = "raise" THEN q ELSE MathSqrt(q.val)

\* the mass ratio taken the wrong way round
MASS_RATIO_HE_XE ==
  FDiv(DecimalLiteral(<<4, 0, 0, 2, 6, 0, 3, 2, 5, 4>>, 9),
       DecimalLiteral(<<1, 3, 0, 9, 0, 5, 0, 8, 4, 1, 4>>, 8))

MASS_RATIO_XE_HE ==
  FDiv(DecimalLiteral(<<1, 3, 0, 9, 0, 5, 0, 8, 4, 1, 4>>, 8),
       DecimalLiteral(<<4, 0, 0, 2, 6, 0, 3, 2, 5, 4>>, 9))

\* the mass term left out of the product
term_mass_omitted == FromInt(1)

term_mass == FSqrt(MASS_RATIO_XE_HE)

\* charge_state_ze / Z_HE in place of Z_HE / charge_state_ze
term_charge_swapped(charge_state_ze) == SqrtOf(TrueDiv(charge_state_ze, Z_HE))

term_charge(charge_state_ze) == SqrtOf(TrueDiv(Z_HE, charge_state_ze))

\* the voltage ratio without its square root
term_voltage_linear(voltage_xe) ==
  IF voltage_xe < 0 THEN Raised("ValueError")
  ELSE Returned(FDiv(FromInt(voltage_xe), V_HE))

term_voltage(voltage_xe) == MathSqrt(FDiv(FromInt(voltage_xe), V_HE))

\* the product with the charge term where the voltage term belongs
B_xe_no_voltage(tc, tv) == FMul(FMul(FMul(B_HE, term_mass), tc), tc)

B_xe(tc, tv) == FMul(FMul(FMul(B_HE, term_mass), tc), tv)

\* round(x, 3)
Round3(x) ==
  IF FormatF3(x) = 0 THEN FZero(x.s)
  ELSE Ratio(x.s, BFromInt(IF x.s = 1 THEN 0 - FormatF3(x) ELSE FormatF3(x)),
             BFromInt(1000), 0)

\* lines 44-49 with the result rounded to the printed precision
ReturnRounded(tc, tv) ==
  IF tc.kind = "raise" THEN tc
  ELSE IF tv.kind = "raise" THEN tv
  ELSE Returned(Round3(B_xe(tc.val, tv.val)))

\* lines 44-49: the first exception of lines 41 and 42 if there is one,
\* else the product
Return(tc, tv) ==
  IF tc.kind = "raise" THEN tc
  ELSE IF tv.kind = "raise" THEN tv
  ELSE Returned(B_xe(tc.val, tv.val))

\* the calculator with its result rounded to the printed precision
calculate_B_xenon_rounded(voltage_xe, charge_state_ze) ==
  ReturnRounded(term_charge(charge_state_ze), term_voltage(voltage_xe))

calculate_B_xenon(voltage_xe, charge_state_ze) ==
  Return(term_charge(charge_state_ze), term_voltage(voltage_xe))

----------------------------------------------------------------------------
(* generate_feasibility_table and the entry point                          *)

Rule == "-------------------------------------------------------------------------"

\* line 60 prints the sign for "approximately equal" where ~ stands here
HeaderLines ==
  << Rule,
     "PHASE 0 DATA: Required Magnetic Flux Density (B) in Tesla",
     "Target Parameter: L/r ~ 3.81 (from He benchmark )",
     Rule,
     "Voltage (V)     | B-Field (z=1)   | B-Field (z=2)   | B-Field (z=3)  ",
     Rule >>

Text(t) == [kind |-> "text", text |-> t, cells |-> <<>>]
Row(vv, b1, b2, b3) ==
  [kind |-> "row", text |-> "",
   cells |-> <<vv, FormatF3(b1), FormatF3(b2), FormatF3(b3)>>]

RangeStart == 100
\* a range that stops before 1000
RangeStopExclusive == 1001 - 1
RangeStop == 1001
RangeStep == 100

\* range(100, 1001, 100) as the sequence it yields
RECURSIVE RangeFrom(_)
RangeFrom(n) ==
  IF n >= RangeStop THEN <<>> ELSE <<n>> \o RangeFrom(n + RangeStep)

voltages_to_test == RangeFrom(RangeStart)

\* charge states counted from 0
ChargeStatesFromZero == <<0, 1, 2>>
ChargeStates == <<1, 2, 3>>

\* bounds of the inputs of a direct call of the calculator
MaxVoltage == 8
MaxCharge == 5
MaxNegative == 2

Voltages ==
  ((0 - MaxNegative)..MaxVoltage) \cup {voltages_to_test[i] : i \in 1..Len(voltages_to_test)}
Charges == (0 - MaxNegative)..MaxCharge

\* the graph of calculate_B_xenon over the inputs of the model: a call looks
\* its outcome up, so that a step's enabling condition does not compute it anew
Outcomes ==
  {<<a, calculate_B_xenon(a[1], a[2])>> : a \in Voltages \X Charges}

\* the outcome of the call calculate_B_xenon(voltage_xe, charge_state_ze)
CallOutcome(voltage_xe, charge_state_ze) ==
  (CHOOSE t \in Outcomes : t[1] = <<voltage_xe, charge_state_ze>>)[2]

VARIABLES
  entry,            \* "main": the script is run; "call": the calculator is called directly
  pc,               \* the statement to execute next
  voltage,       \* arguments of the direct call
  charge_state,
  ret,              \* what the latest call of the calculator returned or raised
  it,               \* how many elements the for loop has taken from the range
  v,                \* the loop variable
  b_z1, b_z2, b_z3,
  out               \* the lines written to standard output

vars == <<entry, pc, voltage, charge_state, ret, it, v, b_z1, b_z2, b_z3, out>>

Init ==
  /\ entry \in {"main", "call"}
  /\ IF entry = "main"
     THEN pc = "header" /\ voltage = 0 /\ charge_state = 0
     ELSE pc = "call" /\ voltage \in Voltages /\ charge_state \in Charges
  /\ ret = NoOutcome
  /\ it = 0
  /\ v = 0
  /\ b_z1 = NoFloat /\ b_z2 = NoFloat /\ b_z3 = NoFloat
  /\ out = <<>>

\* a direct call of calculate_B_xenon by another caller
Call ==
  /\ pc = "call"
  /\ ret' = CallOutcome(voltage, charge_state)
  /\ pc' = IF ret'.kind = "raise" THEN "fault" ELSE "done"
  /\ UNCHANGED <<entry, voltage, charge_state, it, v, b_z1, b_z2, b_z3, out>>

\* lines 58-63: one print per step
PrintHeader ==
  /\ pc = "header"
  /\ out' = Append(out, Text(HeaderLines[Len(out) + 1]))
  /\ pc' = IF Len(out') = Len(HeaderLines) THEN "for" ELSE "header"
  /\ UNCHANGED <<entry, voltage, charge_state, ret, it, v, b_z1, b_z2, b_z3>>

\* line 67: the next voltage of the range, or the end of the loop
ForNext ==
  /\ pc = "for"
  /\ IF it < Len(voltages_to_test)
     THEN /\ it' = it + 1
          /\ v' = voltages_to_test[it + 1]
          /\ pc' = "z1"
     ELSE /\ pc' = "footer"
          /\ UNCHANGED <<it, v>>
  /\ UNCHANGED <<entry, voltage, charge_state, ret, b_z1, b_z2, b_z3, out>>

\* line 68
CallZ1 ==
  /\ pc = "z1"
  /\ ret' = CallOutcome(v, ChargeStates[1])
  /\ IF ret'.kind = "raise"
     THEN pc' = "fault" /\ UNCHANGED b_z1
     ELSE pc' = "z2" /\ b_z1' = ret'.val
  /\ UNCHANGED <<entry, voltage, charge_state, it, v, b_z2, b_z3, out>>

\* line 69
CallZ2 ==
  /\ pc = "z2"
  /\ ret' = CallOutcome(v, ChargeStates[2])
  /\ IF ret'.kind = "raise"
     THEN pc' = "fault" /\ UNCHANGED b_z2
     ELSE pc' = "z3" /\ b_z2' = ret'.val
  /\ UNCHANGED <<entry, voltage, charge_state, it, v, b_z1, b_z3, out>>

\* line 70
CallZ3 ==
  /\ pc = "z3"
  /\ ret' = CallOutcome(v, ChargeStates[3])
  /\ IF ret'.kind = "raise"
     THEN pc' = "fault" /\ UNCHANGED b_z3
     ELSE pc' = "row" /\ b_z3' = ret'.val
  /\ UNCHANGED <<entry, voltage, charge_state, it, v, b_z1, b_z2, out>>

\* line 72
PrintRow ==
  /\ pc = "row"
  /\ out' = Append(out, Row(v, b_z1, b_z2, b_z3))
  /\ pc' = "for"
  /\ UNCHANGED <<entry, voltage, charge_state, ret, it, v, b_z1, b_z2, b_z3>>

\* line 74
PrintFooter ==
  /\ pc = "footer"
  /\ out' = Append(out, Text(Rule))
  /\ pc' = "done"
  /\ UNCHANGED <<entry, voltage, charge_state, ret, it, v, b_z1, b_z2, b_z3>>

generate_feasibility_table ==
  PrintHeader \/ ForNext \/ CallZ1 \/ CallZ2 \/ CallZ3 \/ PrintRow \/ PrintFooter

Next == Call \/ generate_feasibility_table

Spec == Init /\ [][Next]_vars

\* the interpreter runs the single thread until it returns or raises
FairSpec == Spec /\ WF_vars(Next)

----------------------------------------------------------------------------
(* Exact comparisons of binary64 values with decimal and rational numbers  *)

\* -1, 0 or 1 as the float x > 0 is below, equal to or above the decimal
\* number with the given digits, frac of them after the point
FCmpDecimal(x, digits, frac) ==
  IF x.e < 0
  THEN BCmp(BMul(x.m, BPow10(frac)), BShl(BFromDigits(digits), 0 - x.e))
  ELSE BCmp(BMul(BShl(x.m, x.e), BPow10(frac)), BFromDigits(digits))

\* |a - b| * 10^k <= b for naturals a and b
BClose(a, b, k) ==
  LET d == IF BLeq(a, b) THEN BSub(b, a) ELSE BSub(a, b)
  IN  BLeq(BMul(d, BPow10(k)), b)

\* |x - y| <= y * 10^-k for floats x > 0 and y > 0
FClose(x, y, k) ==
  LET e0 == IF x.e < y.e THEN x.e ELSE y.e
  IN  x.m # <<>> /\ y.m # <<>> /\ x.s = 0 /\ y.s = 0
      /\ BClose(BShl(x.m, x.e - e0), BShl(y.m, y.e - e0), k)

\* x^2 * z * 100.0 * 4.002603254 = 0.110^2 * 130.90508414 * V over the
\* rationals, to a relative 10^-14; x > 0 below 2^52
SatisfiesScalingLaw(x, V, z) ==
  LET lhs == BMul(BMul(BMul(x.m, x.m), BFromInt(z * 100)),
                  BMul(BFromDigits(<<4, 0, 0, 2, 6, 0, 3, 2, 5, 4>>), BPow10(14)))
      rhs == BShl(BMul(BMul(BFromInt(110 * 110), BFromInt(V)),
                       BMul(BFromDigits(<<1, 3, 0, 9, 0, 5, 0, 8, 4, 1, 4>>), BPow10(9))),
                  0 - 2 * x.e)
  IN  x.m # <<>> /\ x.s = 0 /\ x.e < 0 /\ BClose(lhs, rhs, 14)

CallEnded == entry = "call" /\ pc # "call"
CallReturned == entry = "call" /\ pc = "done" /\ ret.kind = "return"
InDomain == voltage > 0 /\ charge_state >= 1

----------------------------------------------------------------------------
(* The claims                                                              *)

\* C1 as stated: calculate_B_xenon(100, 1) is within 1e-9 of 0.110.
C1_Benchmark ==
  (CallEnded /\ voltage = 100 /\ charge_state = 1) =>
    /\ ret.kind = "return"
    /\ FCmpDecimal(ret.val, <<1, 0, 9, 9, 9, 9, 9, 9, 9>>, 9) >= 0
    /\ FCmpDecimal(ret.val, <<1, 1, 0, 0, 0, 0, 0, 0, 1>>, 9) <= 0

\* C1 amended: calculate_B_xenon(100, 1) is within 1e-9 of 0.629071008,
\* the benchmark 0.110 multiplied by the square root of the mass ratio.
C1_BenchmarkTimesMassTerm ==
  (CallEnded /\ voltage = 100 /\ charge_state = 1) =>
    /\ ret.kind = "return"
    /\ FCmpDecimal(ret.val, <<6, 2, 9, 0, 7, 1, 0, 0, 7>>, 9) >= 0
    /\ FCmpDecimal(ret.val, <<6, 2, 9, 0, 7, 1, 0, 0, 9>>, 9) <= 0
    /\ SatisfiesScalingLaw(ret.val, 100, 1)

C1_Witness ==
  CallReturned /\ voltage = 100 /\ charge_state = 1 /\ FormatF3(ret.val) = 629

\* C2: for V > 0 and z >= 1 the value returned is the product
\* 0.110 * sqrt(130.90508414 / 4.002603254) * sqrt(1 / z) * sqrt(V / 100.0)
\* evaluated left to right in binary64, nothing rounded after it, and it
\* satisfies the formula over the rationals to a relative 10^-14.
C2_Formula ==
  (CallEnded /\ InDomain) =>
    /\ ret = Returned(
         FMul(FMul(FMul(DecimalLiteral(<<0, 1, 1, 0>>, 3),
                        FSqrt(FDiv(DecimalLiteral(<<1, 3, 0, 9, 0, 5, 0, 8, 4, 1, 4>>, 8),
                                   DecimalLiteral(<<4, 0, 0, 2, 6, 0, 3, 2, 5, 4>>, 9)))),
                   FSqrt(Ratio(0, <<1>>, BFromInt(charge_state), 0))),
              FSqrt(FDiv(FromInt(voltage), FromInt(100)))))
    /\ SatisfiesScalingLaw(ret.val, voltage, charge_state)

C2_Witness ==
  CallReturned /\ voltage = 7 /\ charge_state = 3
  /\ ret.val # Round3(ret.val)

\* C3: a call with charge_state = 0 ends in ZeroDivisionError whatever the
\* voltage, and returns no value.
C3_ZeroChargeRejected ==
  (CallEnded /\ charge_state = 0) =>
    pc = "fault" /\ ret = Raised("ZeroDivisionError")

C3_Witness ==
  entry = "call" /\ pc = "fault" /\ charge_state = 0 /\ voltage < 0
  /\ ret.err = "ZeroDivisionError"

C5_PositiveMonotone ==
  (CallEnded /\ InDomain) =>
    /\ ret.kind = "return"
    /\ FCmp(ret.val, FZero(0)) > 0
    /\ LET up == calculate_B_xenon(voltage + 1, charge_state)
           dn == calculate_B_xenon(voltage, charge_state + 1)
       IN  /\ up.kind = "return" /\ FCmp(ret.val, up.val) < 0
           /\ dn.kind = "return" /\ FCmp(dn.val, ret.val) < 0

C5_Witness ==
  CallReturned /\ voltage = 1000 /\ charge_state = MaxCharge
  /\ FCmp(ret.val, FZero(0)) > 0

\* C6: calculate_B_xenon(4 * V, z) is exactly 2 * calculate_B_xenon(V, z).
C6_VoltageScaling ==
  CallReturned =>
    calculate_B_xenon(4 * voltage, charge_state)
      = Returned(FMul(FromInt(2), ret.val))

C6_Witness ==
  CallReturned /\ voltage = 300 /\ charge_state = 2 /\ ret.val.m # <<>>

\* C7: calculate_B_xenon(V, 4 * z) is exactly 0.5 * calculate_B_xenon(V, z).
C7_ChargeScaling ==
  CallReturned =>
    calculate_B_xenon(voltage, 4 * charge_state)
      = Returned(FMul(DecimalLiteral(<<0, 5>>, 1), ret.val))

C7_Witness ==
  CallReturned /\ voltage = 500 /\ charge_state = 3 /\ ret.val.m # <<>>

\* C8: the table is the 6 header lines, then 10 rows for V = 100, 200, ...,
\* 1000 in this order, each holding V and the formatted results for the
\* charge states 1, 2 and 3, then the closing rule; at every moment the
\* output is a prefix of this.
C8_TableRows ==
  entry = "main" =>
    /\ \A i \in 1..Len(out) :
         IF i <= 6 THEN out[i] = Text(HeaderLines[i])
         ELSE IF i <= 16
              THEN out[i].kind = "row" /\ Len(out[i].cells) = 4
                   /\ out[i].cells[1] = 100 * (i - 6)
              ELSE i = 17 /\ out[i] = Text(Rule)
    /\ pc = "done" =>
         /\ Len(out) = 17
         /\ \A i \in 7..16 :
              out[i].cells =
                << 100 * (i - 6),
                   FormatF3(calculate_B_xenon(100 * (i - 6), 1).val),
                   FormatF3(calculate_B_xenon(100 * (i - 6), 2).val),
                   FormatF3(calculate_B_xenon(100 * (i - 6), 3).val) >>

C8_Witness ==
  entry = "main" /\ pc = "done" /\ Len(out) = 17
  /\ out[7].cells = <<100, 629, 445, 363>>
  /\ out[16].cells = <<1000, 1989, 1407, 1149>>

\* C9: the run of the script never faults and ends with the whole table
\* printed.
C9_MainTerminates ==
  /\ [](entry = "main" => pc # "fault")
  /\ (entry = "main") => <>(pc = "done" /\ Len(out) = 17)

C9_Witness ==
  entry = "main" /\ pc = "done" /\ it = 10 /\ ret.kind = "return" /\ Len(out) = 17

\* the constant of the simplified equation
K == FDiv(FMul(B_HE, term_mass), FSqrt(V_HE))

\* C10: for V > 0 and z >= 1 the result is k * sqrt(V / z), to a relative
\* 10^-14, for the one constant k = B_HE * sqrt(MASS_RATIO_XE_HE) /
\* sqrt(V_HE), and k rounds to 0.0629 at four decimal places.
C10_SimplifiedEquation ==
  (CallEnded /\ InDomain) =>
    /\ ret.kind = "return"
    /\ FClose(ret.val,
              FMul(K, FSqrt(TrueDiv(voltage, charge_state).val)), 14)
    /\ FCmpDecimal(K, <<0, 6, 2, 8, 5>>, 5) > 0
    /\ FCmpDecimal(K, <<0, 6, 2, 9, 5>>, 5) < 0

C10_Witness ==
  CallReturned /\ voltage = 7 /\ charge_state = 2
  /\ ret.val # FMul(K, FSqrt(TrueDiv(voltage, charge_state).val))

====
